---- MODULE Spec2Model ----
(***************************************************************************)
(* pettingzoo.config: DistributedConfig / DistributedMultiConfig, the      *)
(* zookeeper-backed configuration resolver with file fallback, and the     *)
(* registration helpers write_distributed_config / remove_stale_config.    *)
(*                                                                         *)
(* Strings are sequences of tokens: a token is the separator "/" or a      *)
(* separator-free word, so that split and join on "/" are computed.        *)
(* Python values are tagged records (None, a config object, a tuple, a     *)
(* list) so that truthiness is computed as Python computes it.             *)
(*                                                                         *)
(* Two threads run the resolver: the caller thread (load_config) and the   *)
(* zookeeper dispatch thread (_child_callback).  Each step of a thread is  *)
(* one action; providers register and deregister in single actions.        *)
(***************************************************************************)
EXTENDS Integers, Sequences, FiniteSets, TLC

\* ---------------------------------------------------------------- bounds
MaxOps == 4
MaxPending == 2

\* ---------------------------------------------------------------- strings
SEP == "/"

CONFIG_PATH == <<SEP, "config">>

RECURSIVE JoinFrom(_, _)
JoinFrom(parts, i) ==
    IF i > Len(parts) THEN <<>>
    ELSE IF i = Len(parts) THEN parts[i]
    ELSE parts[i] \o <<SEP>> \o JoinFrom(parts, i + 1)

\* "/".join(parts)
Join(parts) == JoinFrom(parts, 1)

RECURSIVE SplitFrom(_, _, _)
SplitFrom(s, i, cur) ==
    IF i > Len(s) THEN <<cur>>
    ELSE IF s[i] = SEP THEN <<cur>> \o SplitFrom(s, i + 1, <<>>)
    ELSE SplitFrom(s, i + 1, Append(cur, s[i]))

\* s.split("/")
Split(s) == SplitFrom(s, 1, <<>>)

\* None and "" are both the empty string: `if ip_address:` treats them alike
NoStr == <<>>

_znode_path(service_class, service_name, ip_address) ==
    LET znarr == <<CONFIG_PATH, service_class, service_name>>
    IN  Join(IF ip_address # NoStr THEN Append(znarr, ip_address) ELSE znarr)

_znode_to_class_and_name(znode) ==
    LET parts == Tail(Split(znode))
    IN  <<parts[1], parts[2]>>

\* ---------------------------------------------------------------- inputs
ServiceClasses == {<<"db">>}
ServiceNames == {<<"x">>, <<"y">>}
Providers == {<<"ip1">>, <<"ip2">>}
Callbacks == {"cb1", "cb2"}
NoCallback == "None"
Configs == {"cfgA", "cfgB"}
FileConfigs == {"empty", "cfgF"}
NotFound == "NotFound"
InterfaceAddress == <<"ip1">>
\* providers register under one of the two services; the other is served from files
RegisteredNames == {<<"x">>}
\* the `ephemeral` argument of the registrations made (its default)
Lifetimes == {TRUE}

ServicePaths == {_znode_path(sc, sn, NoStr) : sc \in ServiceClasses, sn \in ServiceNames}
FileKeys == {Join(<<sc, sn>>) : sc \in ServiceClasses, sn \in ServiceNames}

\* ---------------------------------------------------------------- values
PyNone == [t |-> "None"]
Obj(c) == [t |-> "obj", v |-> c]
Tup(id, payload) == [t |-> "tuple", id |-> id, payload |-> payload]
List(items) == [t |-> "list", items |-> items]

\* Python truth value: None, {} and [] are false
Truthy(v) ==
    CASE v.t = "None" -> FALSE
      [] v.t = "obj" -> v.v # "empty"
      [] v.t = "tuple" -> TRUE
      [] v.t = "list" -> Len(v.items) > 0

yaml_dump(config) == [t |-> "yaml", doc |-> config.v]
EmptyData == [t |-> "yaml", doc |-> "null"]
yaml_load(data) == IF data.doc = "null" THEN PyNone ELSE Obj(data.doc)

\* dict.get(key, default)
DictGet(d, k, default) == IF k \in DOMAIN d THEN d[k] ELSE default
DictPut(d, k, v) == [q \in DOMAIN d \cup {k} |-> IF q = k THEN v ELSE d[q]]

Min(a, b) == IF a < b THEN a ELSE b

Perms(S) ==
    {s \in [1..Cardinality(S) -> S] : \A i, j \in 1..Cardinality(S) : s[i] = s[j] => i = j}

\* ---------------------------------------------------------------- state
VARIABLES
    variant,    \* "single": DistributedConfig, "multi": DistributedMultiConfig
    fileCfg,    \* what knewton.config.fetch_knewton_config finds per "class/name"
    zk,         \* the zookeeper tree: node path -> [data, ephemeral]
    cache,      \* self.cache
    callbacks,  \* self.callbacks
    children,   \* self.children: the paths whose children are watched
    pending,    \* child-change notifications zookeeper has not yet delivered
    call,       \* the caller thread: the load_config call in progress or last made
    disp,       \* the dispatch thread: the _child_callback in progress or last run
    ev,         \* the last registration or deregistration made
    returned,   \* per path: callbacks whose load_config has returned a value
    stale,      \* per path: callbacks owed a notification of a provider change
    registrations, \* per path and callback: load_config calls that passed it
    ops         \* load_config calls, registrations and deregistrations made

vars == <<variant, fileCfg, zk, cache, callbacks, children, pending, call, disp, ev,
          returned, stale, ops,
          registrations>>

\* ---------------------------------------------------------------- store
exists(tree, path) == path \in DOMAIN tree

\* the names of the immediate children of path
ChildNames(tree, path) ==
    {SubSeq(q, Len(path) + 2, Len(q)) : q \in
        {q \in DOMAIN tree :
            /\ Len(q) > Len(path) + 1
            /\ SubSeq(q, 1, Len(path)) = path
            /\ q[Len(path) + 1] = SEP
            /\ \A i \in (Len(path) + 2)..Len(q) : q[i] # SEP}}

Node(data, ephemeral) == [data |-> data, ephemeral |-> ephemeral]

\* the ancestors of path and path itself (the root "/" always exists)
Prefixes(path) ==
    {SubSeq(path, 1, i) : i \in {i \in 2..Len(path) : i = Len(path) \/ path[i + 1] = SEP}}

create_recursive(tree, path) ==
    [q \in DOMAIN tree \cup Prefixes(path) |->
        IF q \in DOMAIN tree THEN tree[q] ELSE Node(EmptyData, FALSE)]

\* zookeeper refuses to create a node that exists (NodeExistsException)
create(tree, znode, payload, ephemeral) ==
    IF exists(tree, znode) THEN tree
    ELSE [q \in DOMAIN tree \cup {znode} |->
            IF q = znode THEN Node(payload, ephemeral) ELSE tree[q]]

delete(tree, znode) == [q \in DOMAIN tree \ {znode} |-> tree[q]]

\* connection.get(znode)[0]
get(tree, znode) == tree[znode].data

\* ---------------------------------------------------------------- initial state
NoCall ==
    [pc |-> "idle", sc |-> NoStr, sn |-> NoStr, path |-> NoStr, cb |-> NoCallback,
     had |-> FALSE, cached |-> PyNone, storeQ |-> FALSE, fileQ |-> NoStr,
     kids |-> {}, rearm |-> FALSE, src |-> "none", ret |-> [t |-> "noreturn"]]

NoDispatch ==
    [pc |-> "idle", path |-> NoStr, key |-> <<NoStr, NoStr>>, config |-> PyNone,
     kids |-> {}, stored |-> FALSE, before |-> {}, live |-> FALSE, size |-> 0,
     todo |-> {}, count |-> [c \in Callbacks |-> 0], args |-> {}, after |-> "nothing",
     status |-> "none"]

NoEvent == [op |-> "none", znode |-> NoStr, path |-> NoStr, config |-> PyNone,
            existed |-> FALSE, old |-> EmptyData]

\* The records call, disp and ev describe the operation in progress and, once it has
\* ended, its outcome.  An outcome is kept until another thread acts: it is what an
\* observer of the step sees, not state of the program.
\* disp.after tells what has acted since the re-resolution began: "nothing", one
\* load_config begun after it ended ("load"), or anything else ("other").
CallSeen == IF call.pc = "idle" THEN NoCall ELSE call
DispSeenByStore == IF disp.pc = "idle" THEN NoDispatch ELSE [disp EXCEPT !.after = "other"]
DispSeenByCaller == IF disp.pc = "idle" THEN NoDispatch ELSE [disp EXCEPT !.after = "other"]
DispSeenByLoad ==
    IF disp.pc = "idle" /\ disp.status # "none" /\ disp.after = "nothing"
    THEN [disp EXCEPT !.after = "load"]
    ELSE DispSeenByCaller

\* DistributedConfig.__init__
Init ==
    /\ variant \in {"single", "multi"}
    /\ fileCfg \in [FileKeys -> FileConfigs \cup {NotFound}]
    /\ \A sc \in ServiceClasses, sn \in ServiceNames \ RegisteredNames :
            fileCfg[Join(<<sc, sn>>)] = "cfgF"
    /\ zk = create_recursive(<<>>, CONFIG_PATH)
    /\ cache = <<>>
    /\ callbacks = <<>>
    /\ children = {}
    /\ pending = [p \in ServicePaths |-> 0]
    /\ call = NoCall
    /\ disp = NoDispatch
    /\ ev = NoEvent
    /\ returned = [p \in ServicePaths |-> {}]
    /\ stale = [p \in ServicePaths |-> {}]
    /\ registrations = [p \in ServicePaths |-> [cb \in Callbacks |-> 0]]
    /\ ops = 0

\* ---------------------------------------------------------------- registration
_get_local_ip == InterfaceAddress

\* write_distributed_config without the delete of the node already there
write_without_delete(tree, service_class, service_name, config, ip_address, ephemeral) ==
    LET ip == IF ip_address = NoStr THEN _get_local_ip ELSE ip_address
        path == _znode_path(service_class, service_name, NoStr)
        made == create_recursive(tree, path)
        znode == _znode_path(service_class, service_name, ip)
    IN  create(made, znode, yaml_dump(config), ephemeral)

\* the tree write_distributed_config leaves: delete-then-create of the provider node
write_distributed_config(tree, service_class, service_name, config, ip_address, ephemeral) ==
    LET ip == IF ip_address = NoStr THEN _get_local_ip ELSE ip_address
        path == _znode_path(service_class, service_name, NoStr)
        made == create_recursive(tree, path)
        payload == yaml_dump(config)
        znode == _znode_path(service_class, service_name, ip)
        cleared == IF exists(made, znode) THEN delete(made, znode) ELSE made
    IN  create(cleared, znode, payload, ephemeral)

\* zookeeper raises NoNodeException for a node that does not exist
remove_stale_config(tree, service_class, service_name, ip_address) ==
    LET znode == _znode_path(service_class, service_name, ip_address)
    IN  IF exists(tree, znode) THEN delete(tree, znode) ELSE tree

\* zookeeper notifies the watch armed on path, if any, of n changes of its children;
\* notifications beyond MaxPending coalesce
Notify(path, n) ==
    pending' = IF path \in children
               THEN [pending EXCEPT ![path] = Min(MaxPending, @ + n)]
               ELSE pending

\* callbacks that were handed a value are owed the news of a changed provider set
Owe(path, tree) ==
    stale' = IF ChildNames(tree, path) # ChildNames(zk, path)
             THEN [stale EXCEPT ![path] = @ \cup returned[path]]
             ELSE stale

Register(service_class, service_name, config, ip_address, ephemeral) ==
    LET path == _znode_path(service_class, service_name, NoStr)
        ip == IF ip_address = NoStr THEN _get_local_ip ELSE ip_address
        znode == _znode_path(service_class, service_name, ip)
        existed == exists(zk, znode)
        tree == write_distributed_config(zk, service_class, service_name, config,
                                         ip_address, ephemeral)
    IN  /\ ops < MaxOps
        /\ ops' = ops + 1
        /\ zk' = tree
        /\ Notify(path, IF existed THEN 2 ELSE 1)
        /\ Owe(path, tree)
        /\ ev' = [op |-> "write", znode |-> znode, path |-> path, config |-> config,
                  existed |-> existed,
                  old |-> IF existed THEN get(zk, znode) ELSE EmptyData]
        /\ call' = CallSeen
        /\ disp' = DispSeenByStore
        /\ UNCHANGED <<registrations, variant, fileCfg, cache, callbacks, children, returned>>

Deregister(service_class, service_name, ip_address) ==
    LET path == _znode_path(service_class, service_name, NoStr)
        znode == _znode_path(service_class, service_name, ip_address)
        existed == exists(zk, znode)
        tree == remove_stale_config(zk, service_class, service_name, ip_address)
    IN  /\ ops < MaxOps
        /\ ops' = ops + 1
        /\ zk' = tree
        /\ Notify(path, IF existed THEN 1 ELSE 0)
        /\ Owe(path, tree)
        /\ ev' = [op |-> IF existed THEN "remove" ELSE "remove_failed", znode |-> znode,
                  path |-> path, config |-> PyNone, existed |-> existed,
                  old |-> IF existed THEN get(zk, znode) ELSE EmptyData]
        /\ call' = CallSeen
        /\ disp' = DispSeenByStore
        /\ UNCHANGED <<registrations, variant, fileCfg, cache, callbacks, children, returned>>

\* ---------------------------------------------------------------- resolution
ChildPath(path, child) == path \o <<SEP>> \o child

\* __load_znodes taking the first child instead of a random one
load_first_child(tree, path) ==
    LET first == CHOOSE c \in ChildNames(tree, path) : TRUE
    IN  IF ChildNames(tree, path) = {} THEN {}
        ELSE {Tup(first, yaml_load(get(tree, ChildPath(path, first))))}

\* DistributedConfig.__load_znodes: the configs it may build from the children
DistributedConfig__load_znodes(tree, path) ==
    {Tup(selectee, yaml_load(get(tree, ChildPath(path, selectee)))) :
        selectee \in ChildNames(tree, path)}

\* the multi-select __load_znodes stopping one child short
load_all_but_last(tree, path) ==
    {List([i \in 1..(Len(order) - 1) |->
            Tup(order[i], yaml_load(get(tree, ChildPath(path, order[i]))))]) :
        order \in Perms(ChildNames(tree, path))}

\* DistributedMultiConfig.__load_znodes: one record per child, in enumeration order
DistributedMultiConfig__load_znodes(tree, path) ==
    {List([i \in 1..Len(order) |->
            Tup(order[i], yaml_load(get(tree, ChildPath(path, order[i]))))]) :
        order \in Perms(ChildNames(tree, path))}

\* load_config calls the __load_znodes of its own class (name mangling)
LoadConfigZnodes(tree, path) ==
    IF variant = "multi" THEN DistributedMultiConfig__load_znodes(tree, path)
    ELSE DistributedConfig__load_znodes(tree, path)

\* _child_callback is defined in DistributedConfig: its self.__load_znodes is
\* DistributedConfig.__load_znodes in both classes (name mangling)
ChildCallbackZnodes(tree, path) == DistributedConfig__load_znodes(tree, path)

_store_config_in_cache(c, znode_path, config) == DictPut(c, znode_path, config)

\* the callback registered only when the lookup misses
SubscribeOnMiss(cbs, znode_path, callback) ==
    IF callback # NoCallback /\ ~Truthy(DictGet(cache, znode_path, PyNone))
    THEN DictPut(cbs, znode_path, DictGet(cbs, znode_path, {}) \cup {callback})
    ELSE cbs

\* _get_config_from_cache: the callback set it leaves
Subscribe(cbs, znode_path, callback) ==
    IF callback # NoCallback
    THEN DictPut(cbs, znode_path, DictGet(cbs, znode_path, {}) \cup {callback})
    ELSE cbs

_get_config_from_cache(c, znode_path) == DictGet(c, znode_path, PyNone)

\* `if cached:` in load_config
CacheHit(cached) == Truthy(cached)

\* the fallback's result left bare in both variants
FileResultBare(found) == Obj(found)

\* the fallback's result as load_config returns and caches it
FileResult(found) ==
    IF variant = "multi" THEN List(<<Tup(<<"file">>, Obj(found))>>) ELSE Obj(found)

Returned(path, cb) ==
    returned' = IF cb # NoCallback THEN [returned EXCEPT ![path] = @ \cup {cb}]
                ELSE returned

\* load_config, lines 114-117: subscribe, look the cache up, return on a hit
LoadBegin(service_class, service_name, callback) ==
    LET path == _znode_path(service_class, service_name, NoStr)
        cached == _get_config_from_cache(cache, path)
        c == [NoCall EXCEPT !.sc = service_class, !.sn = service_name, !.path = path,
                            !.cb = callback, !.had = path \in DOMAIN cache,
                            !.cached = cached]
    IN  /\ call.pc = "idle"
        /\ ops < MaxOps
        /\ ops' = ops + 1
        /\ callbacks' = Subscribe(callbacks, path, callback)
        /\ IF CacheHit(cached)
           THEN /\ call' = [c EXCEPT !.src = "cache", !.ret = cached]
                /\ Returned(path, callback)
           ELSE /\ call' = [c EXCEPT !.pc = "znodes"]
                /\ UNCHANGED returned
        /\ disp' = DispSeenByLoad
        /\ ev' = NoEvent
        /\ registrations' = IF callback # NoCallback
                            THEN [registrations EXCEPT ![path][callback] = @ + 1]
                            ELSE registrations
        /\ UNCHANGED <<variant, fileCfg, zk, cache, children, pending, stale>>

\* load_config, lines 118-120: __load_znodes(path), return what it found
LoadZnodes ==
    /\ call.pc = "znodes"
    /\ IF exists(zk, call.path)
       THEN /\ children' = children \cup {call.path}
            /\ IF ChildNames(zk, call.path) # {}
               THEN \E config \in LoadConfigZnodes(zk, call.path) :
                      /\ cache' = _store_config_in_cache(cache, call.path, config)
                      /\ call' = [call EXCEPT !.pc = "idle", !.storeQ = TRUE,
                                              !.rearm = call.path \in children,
                                              !.kids = ChildNames(zk, call.path),
                                              !.src = "store", !.ret = config]
                      /\ Returned(call.path, call.cb)
               ELSE /\ call' = [call EXCEPT !.pc = "file", !.storeQ = TRUE,
                                              !.rearm = call.path \in children]
                    /\ UNCHANGED <<cache, returned>>
       ELSE /\ call' = [call EXCEPT !.pc = "file", !.storeQ = TRUE]
            /\ UNCHANGED <<cache, children, returned>>
    /\ disp' = DispSeenByCaller
    /\ ev' = NoEvent
    /\ UNCHANGED <<registrations, variant, fileCfg, zk, callbacks, pending, stale, ops>>

\* a fallback failure swallowed and cached as an empty default
CacheDefaultOnFailure(c, path, found) ==
    _store_config_in_cache(c, path, IF found = NotFound THEN PyNone ELSE FileResult(found))

\* load_config, lines 121-122: an exception of _load_file_config propagates, so the
\* store into the cache of line 122 is not reached
CacheAfterFallback(c, path, found) ==
    IF found = NotFound THEN c ELSE _store_config_in_cache(c, path, FileResult(found))

\* load_config, lines 121-123: _load_file_config, cache and return its result
LoadFile ==
    LET query == Join(<<call.sc, call.sn>>)
        found == fileCfg[query]
    IN  /\ call.pc = "file"
        /\ IF found = NotFound
           THEN /\ call' = [call EXCEPT !.pc = "idle", !.fileQ = query, !.src = "error",
                                        !.ret = [t |-> "raised"]]
                /\ cache' = CacheAfterFallback(cache, call.path, found)
                /\ UNCHANGED returned
           ELSE /\ cache' = CacheAfterFallback(cache, call.path, found)
                /\ call' = [call EXCEPT !.pc = "idle", !.fileQ = query, !.src = "file",
                                        !.ret = FileResult(found)]
                /\ Returned(call.path, call.cb)
        /\ disp' = DispSeenByCaller
        /\ ev' = NoEvent
        /\ UNCHANGED <<registrations, variant, fileCfg, zk, callbacks, children, pending, stale, ops>>

\* ---------------------------------------------------------------- watch dispatch
\* `callbacks = self.callbacks.get(path, [])`: the set itself, or a fresh empty list
CallbacksFor(cbs, path) == DictGet(cbs, path, {})

\* _child_callback, lines 156-159 and the start of the loop: re-resolve without
\* arming a watch, then begin iterating over the callbacks of the path
Deliver(path) ==
    LET kids == IF exists(zk, path) THEN ChildNames(zk, path) ELSE {}
        begun(config, stored) ==
            [NoDispatch EXCEPT !.pc = "iter", !.path = path,
                               !.key = _znode_to_class_and_name(path),
                               !.config = config, !.kids = kids, !.stored = stored,
                               !.before = CallbacksFor(callbacks, path),
                               !.live = path \in DOMAIN callbacks,
                               !.size = Cardinality(CallbacksFor(callbacks, path)),
                               !.todo = CallbacksFor(callbacks, path),
                               !.status = "running"]
    IN  /\ disp.pc = "idle"
        /\ pending[path] > 0
        /\ pending' = [pending EXCEPT ![path] = @ - 1]
        /\ IF kids # {}
           THEN \E config \in ChildCallbackZnodes(zk, path) :
                    /\ cache' = _store_config_in_cache(cache, path, config)
                    /\ disp' = begun(config, TRUE)
           ELSE /\ disp' = begun(PyNone, FALSE)
                /\ UNCHANGED cache
        /\ call' = CallSeen
        /\ ev' = NoEvent
        /\ UNCHANGED <<registrations, variant, fileCfg, zk, callbacks, children, returned, stale, ops>>

\* a set iterator raises RuntimeError when the set's size changed since it began
SetChanged(d, cbs) == d.live /\ Cardinality(cbs[d.path]) # d.size

\* a dispatch that invokes a callback once per load_config call that passed it
DispatchPerRegistration ==
    /\ disp.pc = "iter"
    /\ IF SetChanged(disp, callbacks)
       THEN /\ disp' = [disp EXCEPT !.pc = "idle", !.status = "error"]
            /\ UNCHANGED stale
       ELSE IF disp.todo = {}
       THEN /\ disp' = [disp EXCEPT !.pc = "idle", !.status = "done"]
            /\ UNCHANGED stale
       ELSE \E callback \in disp.todo :
            /\ disp' = [disp EXCEPT !.todo = @ \ {callback},
                                    !.count[callback] = @ + registrations[disp.path][callback],
                                    !.args = @ \cup {<<disp.path, disp.config>>}]
            /\ stale' = [stale EXCEPT ![disp.path] = @ \ {callback}]
    /\ call' = CallSeen
    /\ ev' = NoEvent
    /\ UNCHANGED <<registrations, variant, fileCfg, zk, cache, callbacks, children, pending, returned, ops>>

\* one turn of `for callback in callbacks: callback(path, config)`
DispatchNext ==
    /\ disp.pc = "iter"
    /\ IF SetChanged(disp, callbacks)
       THEN /\ disp' = [disp EXCEPT !.pc = "idle", !.status = "error"]
            /\ UNCHANGED stale
       ELSE IF disp.todo = {}
       THEN /\ disp' = [disp EXCEPT !.pc = "idle", !.status = "done"]
            /\ UNCHANGED stale
       ELSE \E callback \in disp.todo :
            /\ disp' = [disp EXCEPT !.todo = @ \ {callback},
                                    !.count[callback] = @ + 1,
                                    !.args = @ \cup {<<disp.path, disp.config>>}]
            /\ stale' = [stale EXCEPT ![disp.path] = @ \ {callback}]
    /\ call' = CallSeen
    /\ ev' = NoEvent
    /\ UNCHANGED <<registrations, variant, fileCfg, zk, cache, callbacks, children, pending, returned, ops>>

\* ---------------------------------------------------------------- specification
Load ==
    \E sc \in ServiceClasses, sn \in ServiceNames, cb \in Callbacks \cup {NoCallback} :
        LoadBegin(sc, sn, cb)

Write ==
    \E sc \in ServiceClasses, sn \in RegisteredNames, c \in Configs,
       ip \in Providers \cup {NoStr}, e \in Lifetimes :
        Register(sc, sn, Obj(c), ip, e)

Remove ==
    \E sc \in ServiceClasses, sn \in RegisteredNames, ip \in Providers :
        Deregister(sc, sn, ip)

Watch == \E path \in ServicePaths : Deliver(path)

Next ==
    \/ Load
    \/ LoadZnodes
    \/ LoadFile
    \/ Write
    \/ Remove
    \/ Watch
    \/ DispatchNext

Spec == Init /\ [][Next]_vars

\* ---------------------------------------------------------------- claims
CallEnded == call.pc = "idle" /\ call.src # "none"
DispEnded == disp.status \in {"done", "error"}

\* C1: whenever the cache holds an entry for the path, whatever its value,
\* load_config returns that entry and makes no call on the store and no fallback
\* query.
C1_CacheHitShortCircuit ==
    call.had =>
        /\ call.pc = "idle"
        /\ call.ret = call.cached
        /\ ~call.storeQ
        /\ call.fileQ = NoStr

\* C2: once load_config has returned a value to a caller that passed a callback,
\* every later change of the provider set of that service is followed by an
\* invocation of the callback.  Stated on the states where delivery has nothing
\* left to do: a callback still owed the news has a notification pending or is
\* waiting its turn in the dispatch in progress.
C2_ChangeReachesCallback ==
    \A path \in ServicePaths : \A cb \in stale[path] :
        \/ pending[path] > 0
        \/ disp.pc = "iter" /\ disp.path = path /\ cb \in disp.todo

\* C3: a delivered watch-fire invokes every callback registered on the path at that
\* time exactly once, with (path, fresh result), and no callback registered on
\* another path only.
C3_FanOutExactlyOnce ==
    DispEnded =>
        /\ \A cb \in disp.before : disp.count[cb] = 1
        /\ \A cb \in Callbacks \ disp.before : disp.count[cb] = 0
        /\ disp.args \subseteq {<<disp.path, disp.config>>}
        /\ disp.config = PyNone <=> disp.kids = {}
        /\ disp.config # PyNone => disp.config.id \in disp.kids

\* C4: when a re-resolution has completed with nothing interleaved, the cache entry
\* of the path equals the fresh result its callbacks were given, for every new set
\* of children, the empty one included, and the next load_config returns it.
C4_CacheHoldsFreshResult ==
    /\ (disp.status = "done" /\ disp.after = "nothing") =>
            DictGet(cache, disp.path, PyNone) = disp.config
    /\ (disp.status = "done" /\ disp.after = "load" /\ call.path = disp.path
            /\ call.pc = "idle") =>
            call.ret = disp.config

\* C5: on a miss with the service path missing or childless, load_config queries
\* the fallback with "service_class/service_name", returns its result (bare in
\* single-select, [("file", result)] in multi-select) and caches what it returns.
C5_FallbackOnEmpty ==
    LET query == call.sc \o <<"/">> \o call.sn
        result == [t |-> "obj", v |-> fileCfg[query]]
        wrapped == [t |-> "list",
                    items |-> <<[t |-> "tuple", id |-> <<"file">>, payload |-> result]>>]
    IN  /\ (CallEnded /\ call.src = "store") => call.kids # {}
        /\ (CallEnded /\ call.storeQ /\ call.kids = {} /\ fileCfg[query] # NotFound) =>
            /\ call.fileQ = query
            /\ call.ret = IF variant = "multi" THEN wrapped ELSE result
            /\ call.path \in DOMAIN cache
            /\ cache[call.path] = call.ret

C5_Witness ==
    /\ CallEnded
    /\ call.src = "file"
    /\ variant = "multi"
    /\ ~exists(zk, call.path)
    /\ call.ret.items[1].id = <<"file">>

RecordOf(tree, path, child) ==
    [t |-> "tuple", id |-> child,
     payload |-> [t |-> "obj", v |-> tree[path \o <<"/">> \o child].data.doc]]

C7_MultiSelectComplete ==
    (variant = "multi" /\ CallEnded /\ call.src = "store") =>
        /\ call.kids = ChildNames(zk, call.path)
        /\ call.ret.t = "list"
        /\ Len(call.ret.items) = Cardinality(call.kids)
        /\ \A child \in call.kids :
                \E i \in 1..Len(call.ret.items) :
                    call.ret.items[i] = RecordOf(zk, call.path, child)
        /\ call.path \in DOMAIN cache
        /\ cache[call.path] = call.ret

C7_Witness ==
    /\ variant = "multi"
    /\ CallEnded
    /\ call.src = "store"
    /\ ~call.had
    /\ Len(call.ret.items) = 2

IsRecordList(v) ==
    /\ v.t = "list"
    /\ \A i \in 1..Len(v.items) : v.items[i].t = "tuple"

\* C8: in the multi-select variant every resolved configuration (returned by
\* load_config, held in the cache, or passed to the callbacks by a re-resolution
\* that found providers) is a sequence of (provider_id, payload) records, never a
\* single record or a bare object.
C8_MultiAlwaysSequence ==
    variant = "multi" =>
        /\ \A path \in DOMAIN cache : IsRecordList(cache[path])
        /\ (CallEnded /\ call.src # "error") => IsRecordList(call.ret)
        /\ (disp.status # "none" /\ disp.kids # {}) =>
            /\ IsRecordList(disp.config)
            /\ {disp.config.items[i].id : i \in 1..Len(disp.config.items)} = disp.kids

\* C9: for every re-resolution that has ended, however load_config calls were
\* interleaved with it, every callback registered on the path before it began has
\* been invoked at least once with its fresh value.
C9_AtLeastOnceDelivery ==
    DispEnded =>
        \A cb \in disp.before :
            /\ disp.count[cb] >= 1
            /\ <<disp.path, disp.config>> \in disp.args

\* C10: registering again for the same (service_class, service_name, provider_id)
\* leaves the provider node holding the second payload, and adds, removes or
\* changes no other provider node.
C10_RegistrationOverwrite ==
    [][ev'.op = "write" =>
        /\ ev'.znode \in DOMAIN zk'
        /\ zk'[ev'.znode].data = [t |-> "yaml", doc |-> ev'.config.v]
        /\ \A node \in (DOMAIN zk \cup DOMAIN zk') \ ({ev'.znode} \cup Prefixes(ev'.path)) :
                /\ node \in DOMAIN zk
                /\ node \in DOMAIN zk'
                /\ zk'[node] = zk[node]]_vars

C10_Witness ==
    /\ ev.op = "write"
    /\ ev.existed
    /\ ev.old # [t |-> "yaml", doc |-> ev.config.v]
    /\ zk[ev.znode].data = [t |-> "yaml", doc |-> ev.config.v]
    /\ Cardinality(ChildNames(zk, ev.path)) = 2

\* C11: for every (service_class, service_name) free of separators, decoding the
\* store path built from it gives the pair back.
C11_RoundTrip ==
    call.path # NoStr =>
        /\ call.path = _znode_path(call.sc, call.sn, NoStr)
        /\ _znode_to_class_and_name(call.path) = <<call.sc, call.sn>>

C13_CallbackKept ==
    [][/\ (call'.path # NoStr /\ call'.cb # NoCallback) =>
            /\ call'.path \in DOMAIN callbacks'
            /\ call'.cb \in callbacks'[call'.path]
       /\ \A path \in DOMAIN callbacks :
            /\ path \in DOMAIN callbacks'
            /\ callbacks[path] \subseteq callbacks'[path]]_vars

C13_Witness ==
    /\ CallEnded
    /\ call.src = "cache"
    /\ call.cb = "cb2"
    /\ callbacks[call.path] = {"cb1", "cb2"}

\* C14: a cache entry and a watch handle are created together: after any successful
\* load_config, from the store or from the fallback, the resolver holds both a
\* cache entry and an armed watch for the path, and keeps both.
C14_EntryAndWatchTogether ==
    /\ (CallEnded /\ call.src \in {"cache", "store", "file"}) =>
            /\ call.path \in DOMAIN cache
            /\ call.path \in children
    /\ \A path \in DOMAIN cache : path \in children

\* C15: at most one watch is ever armed per path: only the first store query for
\* the path arms one; no later load_config and no re-resolution arms a second.
C15_OneWatchPerPath ==
    [][/\ ~call'.rearm
       /\ (disp'.pc = "iter" /\ disp.pc = "idle") => children' = children]_vars

\* C16: a re-resolution never queries the fallback: when it finds no children,
\* every registered callback is still invoked, with the absent result, and no
\* file-based value is substituted.
C16_NoFallbackOnReresolution ==
    (DispEnded /\ disp.kids = {}) =>
        /\ disp.config = PyNone
        /\ ~disp.stored
        /\ \A cb \in disp.before : disp.count[cb] >= 1
        /\ disp.args \subseteq {<<disp.path, PyNone>>}

\* the part of C16 that does not depend on the dispatch surviving: nothing but the
\* absent result is handed out, and the cache is not written
C16_AbsentResultOnly ==
    (disp.status # "none" /\ disp.kids = {}) =>
        /\ disp.config = PyNone
        /\ ~disp.stored
        /\ disp.args \subseteq {<<disp.path, PyNone>>}
        /\ disp.status = "done" => \A cb \in disp.before : disp.count[cb] = 1

\* C17: access to the mappings is serialized: while the dispatch context is inside
\* its read of the callback set of a path (the iteration of _child_callback), no
\* caller thread writes that set.
C17_SerializedAccess ==
    [][(disp.pc = "iter" /\ disp.live) =>
            callbacks'[disp.path] = callbacks[disp.path]]_vars

\* C18: once the cache has an entry for a path no step removes it, and only a
\* re-resolution overwrites it: a load_config that writes the cache found no
\* entry there.
C18_ResolvedStaysResolved ==
    [][/\ \A path \in DOMAIN cache : path \in DOMAIN cache'
       /\ \A path \in DOMAIN cache :
            cache'[path] # cache[path] =>
                disp.pc = "idle" /\ disp'.pc = "iter" /\ disp'.path = path /\ disp'.stored
       /\ (call.pc # "idle" /\ call'.pc = "idle" /\ call'.src \in {"store", "file"}) =>
            call.path \notin DOMAIN cache]_vars

\* the part of C18 that holds: entries are never removed
C18_NeverRemoved ==
    [][\A path \in DOMAIN cache : path \in DOMAIN cache']_vars

\* C19: the same callback passed to two load_config calls for a path makes two
\* registrations that fire independently: a single watch-fire invokes it twice.
C19_DuplicatesFireIndependently ==
    (disp.status = "done" /\ disp.after = "nothing") =>
        \A cb \in Callbacks :
            registrations[disp.path][cb] = 2 => disp.count[cb] = 2

\* C19 as the code has it: self.callbacks[path] is a set, so a callback passed to
\* any number of load_config calls is registered once, and a watch-fire invokes it
\* at most once, exactly once when the dispatch completes.
C19_DuplicatesCollapse ==
    /\ \A path \in ServicePaths :
            DictGet(callbacks, path, {}) = {cb \in Callbacks : registrations[path][cb] >= 1}
    /\ \A cb \in Callbacks : disp.count[cb] <= 1
    /\ (disp.status = "done" /\ disp.after = "nothing") =>
            \A cb \in Callbacks :
                registrations[disp.path][cb] >= 1 => disp.count[cb] = 1

C19_Witness ==
    /\ disp.status = "done"
    /\ disp.after = "nothing"
    /\ registrations[disp.path]["cb1"] = 2
    /\ disp.count["cb1"] = 1

\* C20: in every quiescent state (no load_config or re-resolution in progress,
\* every notification delivered and processed) a store-backed single-select cache
\* entry (provider_id, payload) names a child that exists under the path and holds
\* that child's current value.
C20_QuiescentCacheCurrent ==
    (/\ variant = "single"
     /\ call.pc = "idle"
     /\ disp.pc = "idle"
     /\ \A path \in ServicePaths : pending[path] = 0) =>
        \A path \in DOMAIN cache :
            cache[path].t = "tuple" =>
                /\ cache[path].id \in ChildNames(zk, path)
                /\ cache[path].payload = yaml_load(get(zk, ChildPath(path, cache[path].id)))

====
